---- MODULE Spec2Model ----
(***************************************************************************)
(* Family-tree graph example (main.go): buildFamilyGraph, renderPNG and    *)
(* the four queries of main (DFS, BFS, roots, leaves).                     *)
(*                                                                         *)
(* The graph is a github.com/dominikbraun/graph directed graph.  Its store *)
(* keeps vertices and edges in Go maps: AddVertex and AddEdge refuse a     *)
(* hash / an edge that already exists (the error is discarded by main.go), *)
(* AdjacencyMap and PredecessorMap return map[K]map[K]Edge, and graph.DFS  *)
(* and graph.BFS range over those maps, so the order in which the          *)
(* successors of a vertex are taken is the unspecified Go map order: a     *)
(* nondeterministic choice here.                                           *)
(***************************************************************************)
EXTENDS Integers, Sequences, FiniteSets, TLC

VARIABLES
    familyData,   \* main: the input list of FamilyMember
    pc,           \* position in main / buildFamilyGraph
    i,            \* index of the range loops of buildFamilyGraph
    g,            \* the graph: [vertices: hash -> FamilyMember, edges: set of <<from, to>>]
    nameToID,     \* buildFamilyGraph: map name -> ID
    edges,        \* buildFamilyGraph: var edges []Edge
    graphOut,     \* the *GraphOutput returned by buildFamilyGraph
    dotText,      \* renderPNG: the statements written to the strings.Builder
    renderErr,    \* error returned by renderPNG
    stack,        \* graph.DFS: stack
    queue,        \* graph.BFS: queue
    visited,      \* graph.DFS / graph.BFS: visited
    dfsOut,       \* hashes passed to the DFS visitor, in order
    bfsOut,       \* hashes passed to the BFS visitor, in order
    dfsErr,       \* error returned by graph.DFS
    bfsErr,       \* error returned by graph.BFS
    roots,        \* members printed by the roots loop, in order
    leaves,       \* members printed by the leaves loop, in order
    console,      \* section headers and render messages printed to stdout
    stderr,       \* errors printed to stderr
    exitCode      \* process exit status (-1 while running)

vars == <<familyData, pc, i, g, nameToID, edges, graphOut, dotText, renderErr, stack, queue,
          visited, dfsOut, bfsOut, dfsErr, bfsErr, roots, leaves, console, stderr,
          exitCode>>

----------------------------------------------------------------------------
(* Bounds and input sets *)

\* longest list of the unconstrained inputs (IDs and names may repeat)
MaxLen == 3

\* number of people in the inputs with unique IDs and unique names
FamilySize == 4

IDStr == <<"1", "2", "3", "4", "5", "6", "7">>
NameStr == <<"Jordon D", "Robert Smith", "Danis Jordan", "John Smith",
             "Maria Smith", "Leo Smith", "Nobody">>

FamilyMember(id, name, parent) == [ID |-> id, Name |-> name, ParentName |-> parent]

\* main.go: familyData
SampleData ==
    << FamilyMember("1", "Jordon D", ""),
       FamilyMember("2", "Robert Smith", ""),
       FamilyMember("3", "Danis Jordan", "Jordon D"),
       FamilyMember("4", "John Smith", "Robert Smith"),
       FamilyMember("5", "Maria Smith", "Robert Smith"),
       FamilyMember("6", "Leo Smith", "John Smith") >>

\* Lists of at most MaxLen members over three IDs and two names: IDs and
\* names may repeat, a parent name may match nobody.
GenericMembers ==
    { FamilyMember(id, name, parent) :
        id \in {"1", "2", "3"},
        name \in {"Jordon D", "Robert Smith"},
        parent \in {"", "Jordon D"} }

GenericInputs == UNION { [1..n -> GenericMembers] : n \in 0..MaxLen }

\* The first n people of the sample, each with the parent name p[k]
People(n, p) == [k \in 1..n |-> FamilyMember(IDStr[k], NameStr[k], p[k])]

\* The first FamilySize people of the sample, each with any parent name: the
\* empty one, the name of any of them, or the name of the next person, who is
\* not in the list.
FamilyInputs ==
    LET parents == {""} \cup { NameStr[k] : k \in 1..(FamilySize + 1) }
    IN  { People(FamilySize, p) : p \in [1..FamilySize -> parents] }

\* One person less, each with no parent or any of them as parent, followed by
\* a second entry for one of them that names any parent: an ID listed twice.
RepeatInputs ==
    LET n == FamilySize - 1
        parents == {""} \cup { NameStr[k] : k \in 1..n }
    IN  { Append(People(n, p), FamilyMember(IDStr[r], NameStr[r], q)) :
            p \in [1..n -> parents], r \in 1..n, q \in parents }

Inputs == {SampleData} \cup GenericInputs \cup FamilyInputs \cup RepeatInputs

----------------------------------------------------------------------------
(* Helpers *)

Range(s) == { s[k] : k \in DOMAIN s }

Last(s) == s[Len(s)]

Front(s) == SubSeq(s, 1, Len(s) - 1)

\* all orders in which a Go range over a map with key set S can yield its keys
Perms(S) == { p \in [1..Cardinality(S) -> S] : Range(p) = S }

\* direct successors of the vertices of S along the edge set E
Succ(E, S) == { e[2] : e \in { d \in E : d[1] \in S } }

RECURSIVE Closure(_, _)
\* S together with everything reachable from S along E
Closure(E, S) ==
    LET T == S \cup Succ(E, S)
    IN  IF T = S THEN S ELSE Closure(E, T)

\* the vertices reachable from x along directed edges, x included
Reachable(E, x) == Closure(E, {x})

----------------------------------------------------------------------------
(* github.com/dominikbraun/graph, as used by main.go *)

EmptyGraph == [vertices |-> << >>, edges |-> {}]

\* AddVertex on a graph whose hash function returns the member's Name: a
\* member whose name is already stored is refused.
AddVertexByName(gr, member) ==
    IF \E v \in DOMAIN gr.vertices : gr.vertices[v].Name = member.Name
    THEN gr
    ELSE [gr EXCEPT !.vertices = (member.ID :> member) @@ gr.vertices]

\* g.AddVertex(value): the hash is the member's ID; an existing hash is
\* refused (ErrVertexAlreadyExists) and the stored value is kept.
AddVertex(gr, member) ==
    IF member.ID \in DOMAIN gr.vertices
    THEN gr
    ELSE [gr EXCEPT !.vertices = (member.ID :> member) @@ gr.vertices]

\* AddEdge with the arguments taken as (child, parent)
AddEdgeReversed(gr, source, target) ==
    IF source \notin DOMAIN gr.vertices \/ target \notin DOMAIN gr.vertices
    THEN gr
    ELSE IF <<target, source>> \in gr.edges
    THEN gr
    ELSE [gr EXCEPT !.edges = @ \cup {<<target, source>>}]

\* AddEdge on a graph created with the PreventCycles trait: an edge that
\* would close a cycle is refused (ErrEdgeCreatesCycle).
AddEdgePreventCycles(gr, source, target) ==
    IF source \notin DOMAIN gr.vertices \/ target \notin DOMAIN gr.vertices
    THEN gr
    ELSE IF <<source, target>> \in gr.edges
    THEN gr
    ELSE IF source \in Closure(gr.edges, {target})
    THEN gr
    ELSE [gr EXCEPT !.edges = @ \cup {<<source, target>>}]

\* g.AddEdge(source, target): both vertices must exist and the edge must not
\* (ErrVertexNotFound, ErrEdgeAlreadyExists); no cycle check without the
\* PreventCycles trait.
AddEdge(gr, source, target) ==
    IF source \notin DOMAIN gr.vertices \/ target \notin DOMAIN gr.vertices
    THEN gr
    ELSE IF <<source, target>> \in gr.edges
    THEN gr
    ELSE [gr EXCEPT !.edges = @ \cup {<<source, target>>}]

\* g.AdjacencyMap(): every vertex mapped to the set of its successors
AdjacencyMap(gr) ==
    [v \in DOMAIN gr.vertices |-> { e[2] : e \in { d \in gr.edges : d[1] = v } }]

\* PredecessorMap returning the successors
PredecessorMapOfSuccessors(gr) == AdjacencyMap(gr)

\* g.PredecessorMap(): every vertex mapped to the set of its predecessors
PredecessorMap(gr) ==
    [v \in DOMAIN gr.vertices |-> { e[1] : e \in { d \in gr.edges : d[2] = v } }]

----------------------------------------------------------------------------
(* buildFamilyGraph *)

Init ==
    /\ familyData \in Inputs
    /\ pc = "step1"
    /\ i = 1
    /\ g = EmptyGraph
    /\ nameToID = << >>
    /\ edges = << >>
    /\ graphOut = [Nodes |-> << >>, Edges |-> << >>]
    /\ dotText = << >>
    /\ renderErr = "nil"
    /\ stack = << >>
    /\ queue = << >>
    /\ visited = {}
    /\ dfsOut = << >>
    /\ bfsOut = << >>
    /\ dfsErr = "nil"
    /\ bfsErr = "nil"
    /\ roots = << >>
    /\ leaves = << >>
    /\ console = << >>
    /\ stderr = << >>
    /\ exitCode = -1

\* the map written only when the name is not in it yet
RecordNameOnce(map, member) ==
    [n \in DOMAIN map \cup {member.Name} |->
        IF n \in DOMAIN map THEN map[n] ELSE member.ID]

\* nameToID[member.Name] = member.ID
RecordName(map, member) ==
    [n \in DOMAIN map \cup {member.Name} |->
        IF n = member.Name THEN member.ID ELSE map[n]]

\* Step 1, one iteration: add the member as a vertex and record its name.
AddMember ==
    /\ pc = "step1"
    /\ i <= Len(familyData)
    /\ g' = AddVertex(g, familyData[i])
    /\ nameToID' = RecordName(nameToID, familyData[i])
    /\ i' = i + 1
    /\ UNCHANGED <<familyData, renderErr, pc, edges, graphOut, dotText, stack, queue, visited,
                   dfsOut, bfsOut, dfsErr, bfsErr, roots, leaves, console, stderr,
                   exitCode>>

\* end of the first range loop
Step1Done ==
    /\ pc = "step1"
    /\ i > Len(familyData)
    /\ pc' = "step2"
    /\ i' = 1
    /\ UNCHANGED <<familyData, renderErr, g, nameToID, edges, graphOut, dotText, stack, queue,
                   visited, dfsOut, bfsOut, dfsErr, bfsErr, roots, leaves, console,
                   stderr, exitCode>>

\* does the member name a parent that nameToID resolves
Resolves(map, member) ==
    member.ParentName # "" /\ member.ParentName \in DOMAIN map

\* Step 2, one iteration: add the edge parent -> child when the parent name
\* is not empty and is found in nameToID, and append it to edges.
AddRelation ==
    /\ pc = "step2"
    /\ i <= Len(familyData)
    /\ LET member == familyData[i]
       IN  IF Resolves(nameToID, member)
           THEN /\ g' = AddEdge(g, nameToID[member.ParentName], member.ID)
                /\ edges' = Append(edges, <<nameToID[member.ParentName], member.ID>>)
           ELSE UNCHANGED <<g, edges>>
    /\ i' = i + 1
    /\ UNCHANGED <<familyData, renderErr, pc, nameToID, graphOut, dotText, stack, queue, visited,
                   dfsOut, bfsOut, dfsErr, bfsErr, roots, leaves, console, stderr,
                   exitCode>>

\* end of the second range loop: build the GraphOutput and return
BuildReturn ==
    /\ pc = "step2"
    /\ i > Len(familyData)
    /\ graphOut' = [Nodes |-> familyData, Edges |-> edges]
    /\ pc' = "render"
    /\ UNCHANGED <<familyData, renderErr, i, g, nameToID, edges, dotText, stack, queue, visited,
                   dfsOut, bfsOut, dfsErr, bfsErr, roots, leaves, console, stderr,
                   exitCode>>

----------------------------------------------------------------------------
(* renderPNG *)

\* the node and edge statements written between "digraph G {" and "}"
DotStatements(out) ==
    [k \in 1..Len(out.Nodes) |->
        [stmt |-> "node", id |-> out.Nodes[k].ID, label |-> out.Nodes[k].Name]]
    \o
    [k \in 1..Len(out.Edges) |->
        [stmt |-> "edge", from |-> out.Edges[k][1], to |-> out.Edges[k][2]]]

\* cmd.Run() returns nil: renderPNG returns nil and main goes on
RenderSucceeds ==
    /\ pc = "render"
    /\ dotText' = DotStatements(graphOut)
    /\ console' = console \o <<"Attempting to generate graph image", "Successfully generated">>
    /\ pc' = "dfs"
    /\ UNCHANGED <<familyData, renderErr, i, g, nameToID, edges, graphOut, stack, queue, visited,
                   dfsOut, bfsOut, dfsErr, bfsErr, roots, leaves, stderr, exitCode>>

\* the render error printed, but without os.Exit(1)
RenderFailsAndContinues ==
    /\ pc = "render"
    /\ dotText' = DotStatements(graphOut)
    /\ console' = Append(console, "Attempting to generate graph image")
    /\ renderErr' = "failed to generate graph image"
    /\ stderr' = Append(stderr, "Error: failed to generate graph image")
    /\ pc' = "dfs"
    /\ UNCHANGED <<familyData, i, g, nameToID, edges, graphOut, stack, queue, visited,
                   dfsOut, bfsOut, dfsErr, bfsErr, roots, leaves, exitCode>>

\* cmd.Run() returns an error: renderPNG wraps it, main prints it and exits 1
RenderFails ==
    /\ pc = "render"
    /\ dotText' = DotStatements(graphOut)
    /\ console' = Append(console, "Attempting to generate graph image")
    /\ renderErr' = "failed to generate graph image"
    /\ stderr' = Append(stderr, "Error: failed to generate graph image")
    /\ exitCode' = 1
    /\ pc' = "exit"
    /\ UNCHANGED <<familyData, i, g, nameToID, edges, graphOut, stack, queue, visited,
                   dfsOut, bfsOut, dfsErr, bfsErr, roots, leaves>>

----------------------------------------------------------------------------
(* main: graph.DFS(familyGraph, "2", ...) *)

DFSStart == "2"

BFSStart == "1"

\* graph.DFS up to its loop: the start vertex must be a key of the adjacency
\* map, else an error is returned, which main assigns to _.
DFSBegin ==
    /\ pc = "dfs"
    /\ console' = console \o <<"--- Graph Operations ---", "[DFS]">>
    /\ IF DFSStart \in DOMAIN AdjacencyMap(g)
       THEN /\ stack' = <<DFSStart>>
            /\ visited' = {}
            /\ pc' = "dfs_loop"
            /\ UNCHANGED dfsErr
       ELSE /\ dfsErr' = "could not find start vertex"
            /\ pc' = "bfs"
            /\ UNCHANGED <<stack, visited>>
    /\ UNCHANGED <<familyData, renderErr, i, g, nameToID, edges, graphOut, dotText, queue,
                   dfsOut, bfsOut, bfsErr, roots, leaves, stderr, exitCode>>

\* the loop of graph.DFS taking the oldest entry instead of the newest
DFSStepFIFO ==
    /\ pc = "dfs_loop"
    /\ stack # << >>
    /\ LET currentHash == Head(stack)
       IN  IF currentHash \notin visited
           THEN /\ dfsOut' = Append(dfsOut, currentHash)
                /\ visited' = visited \cup {currentHash}
                /\ \E order \in Perms(AdjacencyMap(g)[currentHash]) :
                       stack' = Tail(stack) \o order
           ELSE /\ stack' = Tail(stack)
                /\ UNCHANGED <<dfsOut, visited>>
    /\ UNCHANGED <<familyData, renderErr, pc, i, g, nameToID, edges, graphOut, dotText,
                   queue, bfsOut, dfsErr, bfsErr, roots, leaves, console, stderr, exitCode>>

\* One iteration of the loop of graph.DFS: pop; if the vertex is not visited,
\* visit it (the visitor returns false), mark it and push its adjacencies in
\* the order the map yields them.
DFSStep ==
    /\ pc = "dfs_loop"
    /\ stack # << >>
    /\ LET currentHash == Last(stack)
       IN  IF currentHash \notin visited
           THEN /\ dfsOut' = Append(dfsOut, currentHash)
                /\ visited' = visited \cup {currentHash}
                /\ \E order \in Perms(AdjacencyMap(g)[currentHash]) :
                       stack' = Front(stack) \o order
           ELSE /\ stack' = Front(stack)
                /\ UNCHANGED <<dfsOut, visited>>
    /\ UNCHANGED <<familyData, renderErr, pc, i, g, nameToID, edges, graphOut, dotText, queue,
                   bfsOut, dfsErr, bfsErr, roots, leaves, console, stderr, exitCode>>

\* the stack is empty: graph.DFS returns nil
DFSReturn ==
    /\ pc = "dfs_loop"
    /\ stack = << >>
    /\ visited' = {}
    /\ pc' = "bfs"
    /\ UNCHANGED <<familyData, renderErr, i, g, nameToID, edges, graphOut, dotText, stack, queue,
                   dfsOut, bfsOut, dfsErr, bfsErr, roots, leaves, console, stderr,
                   exitCode>>

----------------------------------------------------------------------------
(* main: graph.BFS(familyGraph, "1", ...) *)

\* graph.BFS up to its loop: same start check; the start is marked visited
\* and enqueued.
BFSBegin ==
    /\ pc = "bfs"
    /\ console' = Append(console, "[BFS]")
    /\ IF BFSStart \in DOMAIN AdjacencyMap(g)
       THEN /\ queue' = <<BFSStart>>
            /\ visited' = {BFSStart}
            /\ pc' = "bfs_loop"
            /\ UNCHANGED bfsErr
       ELSE /\ bfsErr' = "could not find start vertex"
            /\ pc' = "roots"
            /\ UNCHANGED <<queue, visited>>
    /\ UNCHANGED <<familyData, renderErr, i, g, nameToID, edges, graphOut, dotText, stack,
                   dfsOut, bfsOut, dfsErr, roots, leaves, stderr, exitCode>>

\* the loop of graph.BFS taking the newest entry instead of the oldest
BFSStepLIFO ==
    /\ pc = "bfs_loop"
    /\ queue # << >>
    /\ LET currentHash == Last(queue)
           fresh == AdjacencyMap(g)[currentHash] \ visited
       IN  /\ bfsOut' = Append(bfsOut, currentHash)
           /\ visited' = visited \cup fresh
           /\ \E order \in Perms(fresh) : queue' = Front(queue) \o order
    /\ UNCHANGED <<familyData, renderErr, pc, i, g, nameToID, edges, graphOut, dotText,
                   stack, dfsOut, dfsErr, bfsErr, roots, leaves, console, stderr, exitCode>>

\* One iteration of the loop of graph.BFS: dequeue, visit, then mark and
\* enqueue every adjacency not yet marked, in the order the map yields them.
BFSStep ==
    /\ pc = "bfs_loop"
    /\ queue # << >>
    /\ LET currentHash == Head(queue)
           fresh == AdjacencyMap(g)[currentHash] \ visited
       IN  /\ bfsOut' = Append(bfsOut, currentHash)
           /\ visited' = visited \cup fresh
           /\ \E order \in Perms(fresh) : queue' = Tail(queue) \o order
    /\ UNCHANGED <<familyData, renderErr, pc, i, g, nameToID, edges, graphOut, dotText, stack,
                   dfsOut, dfsErr, bfsErr, roots, leaves, console, stderr, exitCode>>

\* the queue is empty: graph.BFS returns nil
BFSReturn ==
    /\ pc = "bfs_loop"
    /\ queue = << >>
    /\ visited' = {}
    /\ pc' = "roots"
    /\ UNCHANGED <<familyData, renderErr, i, g, nameToID, edges, graphOut, dotText, stack, queue,
                   dfsOut, bfsOut, dfsErr, bfsErr, roots, leaves, console, stderr,
                   exitCode>>

----------------------------------------------------------------------------
(* main: roots and leaves *)

\* the members of the list, in list order, whose ID the map sends to the
\* empty set (len(m[member.ID]) == 0; a missing key reads as empty too)
MembersWithNone(map) ==
    SelectSeq(familyData,
              LAMBDA member : member.ID \notin DOMAIN map \/ map[member.ID] = {})

\* the roots loop: members with no predecessors
FindRoots ==
    /\ pc = "roots"
    /\ console' = Append(console, "[Roots]")
    /\ roots' = MembersWithNone(PredecessorMap(g))
    /\ pc' = "leaves"
    /\ UNCHANGED <<familyData, renderErr, i, g, nameToID, edges, graphOut, dotText, stack, queue,
                   visited, dfsOut, bfsOut, dfsErr, bfsErr, leaves, stderr, exitCode>>

\* the leaves loop: members with no successors; main then returns
FindLeaves ==
    /\ pc = "leaves"
    /\ console' = Append(console, "[Leaves]")
    /\ leaves' = MembersWithNone(AdjacencyMap(g))
    /\ exitCode' = 0
    /\ pc' = "exit"
    /\ UNCHANGED <<familyData, renderErr, i, g, nameToID, edges, graphOut, dotText, stack, queue,
                   visited, dfsOut, bfsOut, dfsErr, bfsErr, roots, stderr>>

----------------------------------------------------------------------------

Next ==
    \/ AddMember
    \/ Step1Done
    \/ AddRelation
    \/ BuildReturn
    \/ RenderSucceeds
    \/ RenderFails
    \/ DFSBegin
    \/ DFSStep
    \/ DFSReturn
    \/ BFSBegin
    \/ BFSStep
    \/ BFSReturn
    \/ FindRoots
    \/ FindLeaves

Spec == Init /\ [][Next]_vars

----------------------------------------------------------------------------
(* Graph notions the properties are stated with *)

\* buildFamilyGraph has returned
Built == pc \notin {"step1", "step2"}

RECURSIVE DistFrom(_, _, _, _, _)
\* the least number of edges from the layer `frontier` (at distance d) to y
DistFrom(E, frontier, seen, d, y) ==
    IF y \in frontier THEN d
    ELSE DistFrom(E, Succ(E, frontier) \ seen, seen \cup Succ(E, frontier), d + 1, y)

\* edge distance from x to a vertex y reachable from x
Distance(E, x, y) == DistFrom(E, {x}, {x}, 0, y)

NoDuplicates(s) == \A a, b \in DOMAIN s : a # b => s[a] # s[b]

RECURSIVE PreOrders(_, _, _)
\* every depth-first pre-order: `path` is the chain of vertices being
\* explored, `out` the vertices visited so far; the next vertex visited is any
\* unvisited successor of the deepest vertex of the chain that has one.
PreOrders(E, out, path) ==
    IF path = << >> THEN {out}
    ELSE LET open == Succ(E, {Last(path)}) \ Range(out)
         IN  IF open = {} THEN PreOrders(E, out, Front(path))
             ELSE UNION { PreOrders(E, Append(out, w), Append(path, w)) : w \in open }

RECURSIVE InsertionPreOrder(_, _, _)
\* the depth-first pre-order in which the successors of a vertex are taken in
\* the order their edges were inserted (the order of the list `ins`)
InsertionPreOrder(ins, out, path) ==
    IF path = << >> THEN out
    ELSE LET open == { k \in DOMAIN ins :
                         ins[k][1] = Last(path) /\ ins[k][2] \notin Range(out) }
         IN  IF open = {} THEN InsertionPreOrder(ins, out, Front(path))
             ELSE LET first == CHOOSE k \in open : \A m \in open : k <= m
                  IN  InsertionPreOrder(ins, Append(out, ins[first][2]),
                                        Append(path, ins[first][2]))

IDsOf(list) == { list[k].ID : k \in DOMAIN list }

UniqueIDs(list) == \A a, b \in DOMAIN list : a # b => list[a].ID # list[b].ID

\* some entity of the list carries the name
Named(list, n) == \E j \in DOMAIN list : list[j].Name = n

\* the ID of the last entity of the list carrying the name
LastIDNamed(list, n) ==
    list[CHOOSE j \in DOMAIN list :
            /\ list[j].Name = n
            /\ \A m \in DOMAIN list : list[m].Name = n => m <= j].ID

----------------------------------------------------------------------------
(* Properties of buildFamilyGraph *)

\* the members the first loop has gone through
Registered ==
    IF pc = "step1" THEN SubSeq(familyData, 1, i - 1) ELSE familyData

\* C1: the graph holds exactly one node per distinct ID of the members added
\* so far (of the whole list once the first loop is over), each stored under
\* its own ID, whatever becomes of the edges.
C1_OneNodePerID ==
    /\ DOMAIN g.vertices = IDsOf(Registered)
    /\ \A v \in DOMAIN g.vertices : g.vertices[v].ID = v
    /\ Built => Cardinality(DOMAIN g.vertices) = Cardinality(IDsOf(familyData))

\* a list with a repeated ID and a parent name nobody carries has been built
\* into a graph with fewer nodes than members
C1_Witness ==
    /\ pc = "render"
    /\ ~UniqueIDs(familyData)
    /\ \E k \in DOMAIN familyData :
           familyData[k].ParentName # "" /\ ~Named(familyData, familyData[k].ParentName)
    /\ Cardinality(DOMAIN g.vertices) = 2
    /\ Len(familyData) = 3

\* the parent reference of the member can be resolved: it is not empty and
\* some entity of the list carries that name
Resolvable(member) ==
    member.ParentName # "" /\ Named(familyData, member.ParentName)

C2_EdgeForResolvable ==
    Built =>
        \A k \in DOMAIN familyData :
            Resolvable(familyData[k]) =>
                \E j \in DOMAIN familyData :
                    /\ familyData[j].Name = familyData[k].ParentName
                    /\ <<familyData[j].ID, familyData[k].ID>> \in g.edges

C2_NothingForUnresolvable ==
    (pc = "step2" /\ i <= Len(familyData) /\ ~Resolvable(familyData[i]))
        => (g' = g /\ edges' = edges /\ stderr' = stderr /\ exitCode' = exitCode
            /\ pc' = "step2" /\ i' = i + 1)

\* C2: once the graph is built, every entity whose non-empty ParentName is
\* the Name of some entity of the list (before or after it) has an edge from
\* an entity of that name to itself; the step that handles an entity whose
\* ParentName is empty or is nobody's name changes neither the graph nor the
\* edge list, reports no error and goes on with the next entity.
C2_Edges == []C2_EdgeForResolvable /\ [][C2_NothingForUnresolvable]_vars

\* a child listed before its parent got its edge, next to an entity whose
\* parent name matches nobody and one with no parent name
C2_Witness ==
    /\ pc = "render"
    /\ \E k, j \in DOMAIN familyData :
           /\ k < j
           /\ familyData[k].ParentName = familyData[j].Name
           /\ familyData[k].ID # familyData[j].ID
           /\ <<familyData[j].ID, familyData[k].ID>> \in g.edges
    /\ \E k \in DOMAIN familyData :
           familyData[k].ParentName # "" /\ ~Named(familyData, familyData[k].ParentName)
    /\ \E k \in DOMAIN familyData : familyData[k].ParentName = ""
    /\ Cardinality(g.edges) = 1

\* C8: the built graph is acyclic: no node reaches itself along one or more
\* directed edges.
C8_Acyclic ==
    Built => \A v \in DOMAIN g.vertices : v \notin Closure(g.edges, Succ(g.edges, {v}))

\* the name is carried by two or more entities of the list
Collides(n) ==
    \E a, b \in DOMAIN familyData :
        a # b /\ familyData[a].Name = n /\ familyData[b].Name = n

\* the number of members among the first k whose parent reference resolves:
\* the position in the edge list of the edge made for member k
EdgeIndex(k) == Cardinality({ m \in 1..k : Resolvable(familyData[m]) })

\* C9: when a name is carried by two or more entities, the edge made for an
\* entity whose ParentName is that name starts at the ID of the last entity of
\* the list carrying the name, wherever the child stands in the list: that edge
\* is in the graph, and it starts at no other ID carried by an entity of that
\* name.
C9_LastNameWins ==
    Built =>
        \A k \in DOMAIN familyData :
            LET n == familyData[k].ParentName
            IN  (n # "" /\ Collides(n)) =>
                    /\ EdgeIndex(k) \in DOMAIN edges
                    /\ edges[EdgeIndex(k)] = <<LastIDNamed(familyData, n), familyData[k].ID>>
                    /\ edges[EdgeIndex(k)] \in g.edges
                    /\ \A j \in DOMAIN familyData :
                           (familyData[j].Name = n
                              /\ familyData[j].ID # LastIDNamed(familyData, n))
                           => edges[EdgeIndex(k)][1] # familyData[j].ID

\* a child listed before two entities of the same name and different IDs has
\* its edge from the second of them only
C9_Witness ==
    /\ pc = "render"
    /\ \E k, a, b \in DOMAIN familyData :
           /\ k < a /\ a < b
           /\ familyData[a].Name = familyData[k].ParentName
           /\ familyData[b].Name = familyData[k].ParentName
           /\ UniqueIDs(familyData)
           /\ <<familyData[b].ID, familyData[k].ID>> \in g.edges
           /\ <<familyData[a].ID, familyData[k].ID>> \notin g.edges

\* the GraphOutput and the statements rendered from it describe the graph
SameStructure ==
    /\ Len(graphOut.Nodes) = Cardinality(DOMAIN g.vertices)
    /\ IDsOf(graphOut.Nodes) = DOMAIN g.vertices
    /\ \A k \in DOMAIN graphOut.Nodes :
           g.vertices[graphOut.Nodes[k].ID] = graphOut.Nodes[k]
    /\ Range(graphOut.Edges) = g.edges
    /\ NoDuplicates(graphOut.Edges)
    /\ pc \notin {"render"} =>
           /\ { [id |-> st.id, label |-> st.label] :
                    st \in { t \in Range(dotText) : t.stmt = "node" } }
               = { [id |-> v, label |-> g.vertices[v].Name] : v \in DOMAIN g.vertices }
           /\ { <<st.from, st.to>> : st \in { t \in Range(dotText) : t.stmt = "edge" } }
               = g.edges
           /\ Len(dotText) = Cardinality(DOMAIN g.vertices) + Cardinality(g.edges)

\* C10 as stated: for every input list, repeated IDs included, the
\* GraphOutput has one node entry per graph node, the pair (from, to) exactly
\* for the edges of the graph, and no pair twice.
C10_SameStructureAlways == Built => SameStructure

\* C10 amended: the same, for the input lists in which no ID occurs twice.
C10_SameStructureUniqueIDs == (Built /\ UniqueIDs(familyData)) => SameStructure

\* a list of distinct IDs with two edges has been built and rendered
C10_Witness ==
    /\ pc = "dfs"
    /\ UniqueIDs(familyData)
    /\ Len(graphOut.Edges) >= 2
    /\ Len(dotText) >= 5

----------------------------------------------------------------------------
(* Properties of the queries of main *)

\* graph.DFS has returned without an error
DFSDone == pc \in {"bfs", "bfs_loop", "roots", "leaves", "exit"} /\ exitCode # 1
               /\ dfsErr = "nil"

\* graph.BFS has returned without an error
BFSDone == pc \in {"roots", "leaves", "exit"} /\ exitCode # 1 /\ bfsErr = "nil"

\* the two orders README.md and the edge list allow on the sample data
SampleOrders == { <<"2", "4", "6", "5">>, <<"2", "5", "4", "6">> }

C4_DistanceOrder ==
    /\ NoDuplicates(bfsOut)
    /\ bfsOut # << >> => Range(bfsOut) \subseteq Reachable(g.edges, BFSStart)
    /\ BFSDone =>
          /\ Range(bfsOut) = Reachable(g.edges, BFSStart)
          /\ \A a, b \in DOMAIN bfsOut :
                 a < b => Distance(g.edges, BFSStart, bfsOut[a])
                            <= Distance(g.edges, BFSStart, bfsOut[b])

\* a traversal has returned after visiting two nodes at distance 1 and then
\* one at distance 2
C4_Witness ==
    /\ BFSDone
    /\ Len(bfsOut) = 4
    /\ Distance(g.edges, BFSStart, bfsOut[2]) = 1
    /\ Distance(g.edges, BFSStart, bfsOut[3]) = 1
    /\ Distance(g.edges, BFSStart, bfsOut[4]) = 2

HasIncoming(id) == \E e \in g.edges : e[2] = id

HasOutgoing(id) == \E e \in g.edges : e[1] = id

\* C5: when main returns, the roots reported are exactly the entities with no
\* incoming edge and the leaves exactly those with no outgoing edge, both in
\* the order of the input list; an entity with neither is in both reports.
C5_RootsAndLeaves ==
    (pc = "exit" /\ exitCode = 0) =>
        /\ roots = SelectSeq(familyData, LAMBDA member : ~HasIncoming(member.ID))
        /\ leaves = SelectSeq(familyData, LAMBDA member : ~HasOutgoing(member.ID))
        /\ \A k \in DOMAIN familyData :
               (~HasIncoming(familyData[k].ID) /\ ~HasOutgoing(familyData[k].ID))
               => (familyData[k] \in Range(roots) /\ familyData[k] \in Range(leaves))
        /\ familyData = SampleData =>
               /\ [k \in DOMAIN roots |-> roots[k].ID] = <<"1", "2">>
               /\ [k \in DOMAIN leaves |-> leaves[k].ID] = <<"3", "5", "6">>

\* both queries have reported: a root with a child, a leaf with a parent and
\* an isolated entity, which is in both reports
C5_Witness ==
    /\ pc = "exit" /\ exitCode = 0
    /\ \E k \in DOMAIN familyData :
           /\ ~HasIncoming(familyData[k].ID) /\ ~HasOutgoing(familyData[k].ID)
           /\ familyData[k] \in Range(roots) /\ familyData[k] \in Range(leaves)
    /\ \E k \in DOMAIN familyData :
           /\ HasOutgoing(familyData[k].ID)
           /\ familyData[k] \in Range(roots) /\ familyData[k] \notin Range(leaves)
    /\ \E k \in DOMAIN familyData :
           /\ HasIncoming(familyData[k].ID)
           /\ familyData[k] \in Range(leaves) /\ familyData[k] \notin Range(roots)

\* C6: a traversal whose start ID is not a node of the graph fails, and the
\* failure shows in the outcome of the program: a message on stderr or a
\* non-zero exit status.
C6_NodeNotFoundSurfaced ==
    (pc = "exit" /\ (dfsErr # "nil" \/ bfsErr # "nil"))
        => (exitCode # 0 \/ stderr # << >>)

\* the query section headers printed so far
Queries ==
    SelectSeq(console, LAMBDA line : line \in {"[DFS]", "[BFS]", "[Roots]", "[Leaves]"})

AllQueries == <<"[DFS]", "[BFS]", "[Roots]", "[Leaves]">>

\* C7: no query starts before the render step has completed successfully; a
\* run whose render command failed ends with the error reported, exit status
\* 1 and no query run; a run whose render command succeeded runs DFS, BFS,
\* roots, leaves in that order and ends with exit status 0.
C7_RenderThenQueries ==
    /\ Queries = SubSeq(AllQueries, 1, Len(Queries))
    /\ (Queries # << >> \/ dfsOut # << >> \/ bfsOut # << >> \/ roots # << >>
          \/ leaves # << >> \/ pc \in {"dfs", "dfs_loop", "bfs", "bfs_loop", "roots", "leaves"})
         => (renderErr = "nil" /\ "Successfully generated" \in Range(console))
    /\ renderErr # "nil" =>
          /\ pc = "exit" /\ exitCode = 1
          /\ stderr = <<"Error: failed to generate graph image">>
          /\ Queries = << >>
    /\ pc = "exit" =>
          /\ exitCode \in {0, 1}
          /\ exitCode = 1 <=> renderErr # "nil"
          /\ exitCode = 0 => Queries = AllQueries
    /\ pc # "exit" => exitCode = -1

\* one run has ended after a failed render of a graph with an edge
C7_WitnessFailed ==
    pc = "exit" /\ renderErr # "nil" /\ g.edges # {}

\* a run has ended with status 0 after all four queries, and the traversals
\* visited something
C7_Witness ==
    /\ pc = "exit" /\ exitCode = 0
    /\ Queries = AllQueries
    /\ Len(dfsOut) >= 2 /\ Len(bfsOut) >= 2

====
